---------------------------- MODULE Spec2Model ----------------------------
(***************************************************************************)
(* A model of Legg.io, a browser teleprompter: the Prompter component      *)
(* (playback controller, audio activity monitor, background media manager, *)
(* recorder) and the App component's script store.                         *)
(*                                                                         *)
(* React state (useState) and refs (useRef) are the variables. A handler,  *)
(* the re-render it causes and the effects whose dependencies changed are  *)
(* one action: React commits them together before the next event.          *)
(*                                                                         *)
(* Units.  scrollSpeed moves in steps of 0.5 and the accumulator in steps  *)
(* of 0.25, so the model stores scrollSpeed as twice its value and         *)
(* scrollAccumulator as four times its value (both exact integers).        *)
(* silenceThresholdSeconds moves in steps of 0.5 s, so it is stored in     *)
(* half seconds and the clock advances in half seconds.                    *)
(***************************************************************************)
EXTENDS Integers, Sequences, FiniteSets, TLC

\* ------------------------------------------------------------------ bounds
\* Scrollable extent of the prompter text (scrollHeight - clientHeight).
MaxScroll == 2
\* Largest silence threshold the slider is moved to, in half seconds.
MaxThreshold == 3
\* Largest scroll speed reached with the speed keys and slider (twice the value).
SpeedCap == 4
\* getUserMedia / getDisplayMedia calls the user's actions may start.
MaxAcquisitions == 5
\* Recordings the user starts.
MaxTakes == 2
\* Video and audio input devices enumerated.
NumDevices == 2
\* Script mutations (create, update, rename, delete); Date.now() advances by
\* one with each.
MaxClock == 2
\* Frames of one scroll run.
MaxFrames == 9
\* Records of a saved collection the load is applied to.
MaxSaved == 2

\* ------------------------------------------------------- program constants
\* average > 10 (part_000:247)
NoiseThreshold == 10
\* scrollTop -= 100 / += 100 (part_000:340, 347)
NudgePixels == 100
\* Math.min(20, prev + 0.5) (part_000:353), stored doubled
MaxSpeed2 == 40
\* <input type="range" min="0" max="15"> (part_000:624), stored doubled
SliderMaxSpeed2 == 30
\* useState(2) (part_000:35), stored doubled
InitialSpeed2 == 4
\* useState(2) seconds (part_000:36), stored in half seconds
InitialThreshold2 == 4
\* <input type="range" min="1" max="10"> (part_000:637), in half seconds
SliderMinThreshold2 == 2
SliderMaxThreshold2 == 20
\* const MAX_SCRIPTS = 10 (part_000:746)
MAX_SCRIPTS == 10
\* maxLength={50} of the title input (types.ts:188)
TitleMaxLength == 50
\* substring(0, 30) of the title migration (part_000:760)
FirstLineCut == 30

Min(a, b) == IF a < b THEN a ELSE b
Max(a, b) == IF a > b THEN a ELSE b

\* The clock is read only as Date.now() - lastNoiseTime.current; the model keeps
\* that difference, saturated just above the largest threshold explored.
SilenceCap == Max(MaxThreshold, InitialThreshold2) + 1

\* Frequency means the analyser is fed with (0..255).
Levels == {0, NoiseThreshold, NoiseThreshold + 1}

VARIABLES
  \* the Prompter view is mounted
  mounted,
  \* playback (useState / useRef of Prompter)
  isPlaying, isAutoPaused, micPermission,
  scrollSpeed, silenceThresholdSeconds, scrollAccumulator, scrollTop,
  timeSinceNoise,
  \* background media
  isCameraOn, isScreenShareOn, selectedVideoId, selectedAudioId,
  mediaStreamRef, videoPreviewSrc,
  pendingCamera, pendingScreen, pendingMic, devicesPending,
  leakedCamera, leakedScreen, devicesStreamLive, acquisitions,
  \* audio graph
  audioContextRef, openContexts, liveMicStreams, analyserRef, analyserSource,
  volumeLoops,
  \* recorder
  isRecording, recordedChunks, downloadUrl, mediaRecorderRef,
  recorderStream, pendingData,
  \* animation loop: the animate callbacks scheduled with requestAnimationFrame
  \* and whether animationFrameRef holds the id of a request
  animationLoops, animationFrameRef,
  \* script store (App)
  scripts, activeScriptId, storage, nextId, clock, storeOp,
  \* localStorage accepts writes; an exception left the auto-save effect
  storageWritable, persistError,
  \* history: frames evaluated and pixels applied since the scroll run began
  frames, applied,
  \* the width of the progress bar in percent, a fraction <<numerator,
  \* denominator>>, and the scrollable extent scrollHeight - clientHeight
  progress, maxScroll

scrollVars == <<scrollSpeed, silenceThresholdSeconds, scrollAccumulator,
                scrollTop, timeSinceNoise, isAutoPaused>>
mediaCore == <<mounted, isPlaying, micPermission,
               isCameraOn, isScreenShareOn, selectedVideoId, selectedAudioId,
               mediaStreamRef, videoPreviewSrc,
               pendingCamera, pendingScreen, pendingMic, devicesPending,
               leakedCamera, leakedScreen, devicesStreamLive, acquisitions,
               audioContextRef, openContexts, liveMicStreams, analyserRef,
               analyserSource, volumeLoops,
               isRecording, recordedChunks, downloadUrl, mediaRecorderRef,
               recorderStream, pendingData>>
loopVars == <<animationLoops, animationFrameRef>>
mediaVars == <<mediaCore, loopVars>>
storeVars == <<scripts, activeScriptId, storage, nextId, clock, storeOp,
               storageWritable, persistError>>
historyVars == <<frames, applied>>
viewVars == <<progress, maxScroll>>
prompterVars == <<scrollVars, mediaVars>>
vars == <<scrollVars, mediaVars, storeVars, historyVars, viewVars>>


\* ------------------------------------------- background media, audio, recorder
\* The handlers below call one another in sequence, so each is an operator from
\* a snapshot of the component (a record of the variables of mediaVars) to the
\* snapshot it leaves; an action commits the last snapshot.
\*
\* Streams are counted, not named: mediaStreamRef is "null" or the kind of the
\* stream it holds (a held stream has live tracks), leakedCamera / leakedScreen
\* count capture streams with live tracks that no ref holds any more,
\* liveMicStreams the microphone-only streams with live tracks.
Cur ==
  [mounted |-> mounted,
   isPlaying |-> isPlaying, micPermission |-> micPermission,
   isCameraOn |-> isCameraOn, isScreenShareOn |-> isScreenShareOn,
   selectedVideoId |-> selectedVideoId, selectedAudioId |-> selectedAudioId,
   mediaStreamRef |-> mediaStreamRef, videoPreviewSrc |-> videoPreviewSrc,
   pendingCamera |-> pendingCamera, pendingScreen |-> pendingScreen,
   pendingMic |-> pendingMic, devicesPending |-> devicesPending,
   leakedCamera |-> leakedCamera, leakedScreen |-> leakedScreen,
   devicesStreamLive |-> devicesStreamLive, acquisitions |-> acquisitions,
   audioContextRef |-> audioContextRef, openContexts |-> openContexts,
   liveMicStreams |-> liveMicStreams, analyserRef |-> analyserRef,
   analyserSource |-> analyserSource,
   volumeLoops |-> volumeLoops,
   isRecording |-> isRecording, recordedChunks |-> recordedChunks,
   downloadUrl |-> downloadUrl, mediaRecorderRef |-> mediaRecorderRef,
   recorderStream |-> recorderStream, pendingData |-> pendingData]

\* (a variant whose cleanup cancels nothing, against which C29 is tested)
animationCleanupKeeps(loops, ref) == loops

\* The cleanup of the animation effect: the request animationFrameRef holds,
\* which is the one made last and so is still pending, is cancelled.
animationCleanup(loops, ref) == IF ref /\ loops > 0 THEN loops - 1 ELSE loops

\* The animation effect after a render: when one of isPlaying, scrollSpeed,
\* silenceThresholdSeconds, micPermission changed, the cleanup of the previous
\* run and then the effect, which requests a frame for a new closure.
animationEffect(changed) ==
  IF changed
  THEN /\ animationLoops' = animationCleanup(animationLoops, animationFrameRef) + 1
       /\ animationFrameRef' = TRUE
  ELSE UNCHANGED loopVars

Commit(s) ==
  /\ IF ~mounted THEN UNCHANGED loopVars
     ELSE IF ~s.mounted
     THEN /\ animationLoops' = animationCleanup(animationLoops, animationFrameRef)
          /\ UNCHANGED animationFrameRef
     ELSE animationEffect(s.isPlaying # isPlaying \/ s.micPermission # micPermission)
  /\ mounted' = s.mounted
  /\ isPlaying' = s.isPlaying
  /\ micPermission' = s.micPermission
  /\ isCameraOn' = s.isCameraOn
  /\ isScreenShareOn' = s.isScreenShareOn
  /\ selectedVideoId' = s.selectedVideoId
  /\ selectedAudioId' = s.selectedAudioId
  /\ mediaStreamRef' = s.mediaStreamRef
  /\ videoPreviewSrc' = s.videoPreviewSrc
  /\ pendingCamera' = s.pendingCamera
  /\ pendingScreen' = s.pendingScreen
  /\ pendingMic' = s.pendingMic
  /\ devicesPending' = s.devicesPending
  /\ leakedCamera' = s.leakedCamera
  /\ leakedScreen' = s.leakedScreen
  /\ devicesStreamLive' = s.devicesStreamLive
  /\ acquisitions' = s.acquisitions
  /\ audioContextRef' = s.audioContextRef
  /\ openContexts' = s.openContexts
  /\ liveMicStreams' = s.liveMicStreams
  /\ analyserRef' = s.analyserRef
  /\ analyserSource' = s.analyserSource
  /\ volumeLoops' = s.volumeLoops
  /\ isRecording' = s.isRecording
  /\ recordedChunks' = s.recordedChunks
  /\ downloadUrl' = s.downloadUrl
  /\ mediaRecorderRef' = s.mediaRecorderRef
  /\ recorderStream' = s.recorderStream
  /\ pendingData' = s.pendingData

\* All tracks of the stream a running recorder records have ended: the platform
\* stops the recorder and queues its data (the recorder is started without a
\* timeslice, so its data is one chunk, delivered after it stops).
\* recorderStream says where the running recorder's stream is: "none" (no
\* recorder is running), "held", "leakedCamera" or "leakedScreen".
recorderTracksEnded(s, where) ==
  IF s.recorderStream = where
  THEN [s EXCEPT !.recorderStream = "none",
                 !.pendingData = @ \cup {s.mediaRecorderRef}]
  ELSE s

\* analyserSource says which stream feeds the analyser of analyserRef: "none"
\* (no analyser, or its stream's tracks were stopped), "mic" (a microphone-only
\* stream), "held" (the camera stream mediaStreamRef holds) or "leaked" (a
\* camera stream that is live but no longer held).
stopCurrentStream(s) ==
  IF s.mediaStreamRef = "null"
  THEN [s EXCEPT !.videoPreviewSrc = "null"]
  ELSE [recorderTracksEnded(s, "held") EXCEPT
           !.mediaStreamRef = "null",
           !.videoPreviewSrc = "null",
           !.analyserSource = IF @ = "held" THEN "none" ELSE @]

\* Up to the await: the current context is closed, a microphone is requested.
initAudioAnalysisOnly(s) ==
  [s EXCEPT !.audioContextRef = IF @ = "null" THEN "null" ELSE "closed",
            !.openContexts = IF s.audioContextRef = "open" THEN @ - 1 ELSE @,
            !.pendingMic = @ + 1,
            !.acquisitions = @ + 1]

\* Called with a camera stream (src = "held") or a microphone stream
\* (src = "mic"); both carry an audio track, so the first branch is taken.
initAudioAnalysisFromStream(s, src) ==
  [s EXCEPT !.audioContextRef = "open",
            !.openContexts = @ + 1,
            !.analyserRef = TRUE,
            !.analyserSource = src,
            !.micPermission = "true",
            !.volumeLoops = @ + 1]

\* Up to the await.
startCamera(s) ==
  [stopCurrentStream(s) EXCEPT !.pendingCamera = @ + 1, !.acquisitions = @ + 1]

startScreenShare(s) ==
  [stopCurrentStream(s) EXCEPT !.pendingScreen = @ + 1, !.acquisitions = @ + 1]

modeEffect(s) ==
  IF s.isCameraOn THEN startCamera(s)
  ELSE IF s.isScreenShareOn THEN startScreenShare(s)
  ELSE initAudioAnalysisOnly(stopCurrentStream(s))

\* (a variant that does not look at isRecording, against which C9 is tested)
downloadUrlEffectWhileRecording(s) ==
  IF Len(s.recordedChunks) > 0
  THEN [s EXCEPT !.downloadUrl = <<s.recordedChunks>>]
  ELSE s

downloadUrlEffect(s) ==
  IF ~s.isRecording /\ Len(s.recordedChunks) > 0
  THEN [s EXCEPT !.downloadUrl = <<s.recordedChunks>>]
  ELSE s

modeDeps(s) ==
  <<s.isCameraOn, s.isScreenShareOn, s.selectedVideoId, s.selectedAudioId>>
downloadUrlDeps(s) == <<s.isRecording, s.recordedChunks>>

\* The re-render after a handler that left snapshot s, started from snapshot
\* old: the effects whose dependencies changed run, in declaration order.
Render(old, s) ==
  LET a == IF modeDeps(s) # modeDeps(old) THEN modeEffect(s) ELSE s
  IN IF downloadUrlDeps(a) # downloadUrlDeps(old) THEN downloadUrlEffect(a) ELSE a

\* (a variant without the exclusive line, against which C6 is tested)
handleToggleCameraAlone(s) ==
  [s EXCEPT !.isCameraOn = ~s.isCameraOn]

handleToggleCamera(s) ==
  [s EXCEPT !.isScreenShareOn = IF ~s.isCameraOn THEN FALSE ELSE @,
            !.isCameraOn = ~s.isCameraOn]

handleToggleScreen(s) ==
  [s EXCEPT !.isCameraOn = IF ~s.isScreenShareOn THEN FALSE ELSE @,
            !.isScreenShareOn = ~s.isScreenShareOn]

\* A newly acquired stream is stored in mediaStreamRef; a stream the ref still
\* held is not stopped by the assignment and stays live, unreferenced.
storeStream(s, kind) ==
  [s EXCEPT !.leakedCamera = IF s.mediaStreamRef = "camera" THEN @ + 1 ELSE @,
            !.leakedScreen = IF s.mediaStreamRef = "screen" THEN @ + 1 ELSE @,
            !.recorderStream =
               IF @ = "held"
               THEN (IF s.mediaStreamRef = "camera" THEN "leakedCamera"
                                                    ELSE "leakedScreen")
               ELSE @,
            !.analyserSource = IF @ = "held" THEN "leaked" ELSE @,
            !.mediaStreamRef = kind,
            !.videoPreviewSrc = kind]


\* ---- asynchronous acquisitions resolving (the code after each await)
cameraAcquired(s) ==
  initAudioAnalysisFromStream(
    storeStream([s EXCEPT !.pendingCamera = @ - 1], "camera"), "held")

cameraFailed(s) ==
  [s EXCEPT !.pendingCamera = @ - 1, !.isCameraOn = FALSE]

screenAcquired(s) ==
  initAudioAnalysisOnly(
    storeStream([s EXCEPT !.pendingScreen = @ - 1], "screen"))

screenFailed(s) ==
  [s EXCEPT !.pendingScreen = @ - 1, !.isScreenShareOn = FALSE]

micAcquired(s) ==
  initAudioAnalysisFromStream(
    [s EXCEPT !.pendingMic = @ - 1, !.liveMicStreams = @ + 1], "mic")

micFailed(s) ==
  [s EXCEPT !.pendingMic = @ - 1, !.micPermission = "false"]

\* getDevices after its getUserMedia resolved: the stream it opened is kept by
\* nobody and never stopped; the first device of each list is selected.
devicesAcquired(s) ==
  [s EXCEPT !.devicesPending = FALSE,
            !.devicesStreamLive = TRUE,
            !.selectedVideoId = 1,
            !.selectedAudioId = 1]

devicesFailed(s) == [s EXCEPT !.devicesPending = FALSE]

\* stream.getVideoTracks()[0].onended of a screen stream
screenEnded(s) ==
  initAudioAnalysisOnly(stopCurrentStream([s EXCEPT !.isScreenShareOn = FALSE]))

\* ---- recorder
\* outcome: "started", or "failed" when new MediaRecorder / recorder.start throws
startRecording(s, outcome) ==
  IF s.mediaStreamRef = "null" THEN s
  ELSE LET c == [s EXCEPT !.recordedChunks = <<>>, !.downloadUrl = <<>>]
       IN IF outcome = "started"
          THEN [c EXCEPT !.mediaRecorderRef = @ + 1,
                         !.recorderStream = "held",
                         !.isRecording = TRUE]
          ELSE c

\* recorder.stop(): a running recorder stops and queues its data; one that is
\* already inactive (its tracks ended) is left as it is.
recorderStop(s) ==
  IF s.recorderStream = "none" THEN s
  ELSE recorderTracksEnded(s, s.recorderStream)

\* (a variant that leaves playback alone, against which C4 is tested)
stopRecordingKeepsPlaying(s) ==
  IF s.mediaRecorderRef # 0
  THEN [recorderStop(s) EXCEPT !.isRecording = FALSE]
  ELSE s

stopRecording(s) ==
  IF s.mediaRecorderRef # 0
  THEN [recorderStop(s) EXCEPT !.isRecording = FALSE, !.isPlaying = FALSE]
  ELSE s

toggleRecording(s, outcome) ==
  IF s.isRecording THEN stopRecording(s) ELSE startRecording(s, outcome)

\* (a variant that buffers nothing, against which C30 is tested)
ondataavailableDropping(s, k, size) ==
  [s EXCEPT !.pendingData = @ \ {k}]

\* recorder.ondataavailable of take k with a blob of the given size
ondataavailable(s, k, size) ==
  [s EXCEPT !.pendingData = @ \ {k},
            !.recordedChunks = IF size > 0 THEN Append(@, k) ELSE @]


\* ------------------------------------------------------ playback controller
\* The browser keeps scrollTop within [0, scrollHeight - clientHeight].
clampScroll(x) == Max(0, Min(maxScroll, x))

\* (a variant without the test of maxScroll, against which C24 is tested)
updateProgressBarUnguarded(top) ==
  IF 100 * top > 100 * maxScroll THEN <<100, 1>>
  ELSE IF top < 0 THEN <<0, 1>>
  ELSE <<100 * top, maxScroll>>

\* updateProgressBar: the width it writes for the position top, the fraction
\* (top / maxScroll) * 100 held between 0 and 100, and 0 when there is
\* nothing to scroll.
updateProgressBar(top) ==
  IF maxScroll > 0
  THEN IF 100 * top > 100 * maxScroll THEN <<100, 1>>
       ELSE IF top < 0 THEN <<0, 1>>
       ELSE <<100 * top, maxScroll>>
  ELSE <<0, 1>>

\* (a variant that forgets the permission, against which C2 is tested)
shouldPauseIgnoringPermission == timeSinceNoise > silenceThresholdSeconds

\* micPermission && timeSinceNoise > silenceThresholdSeconds * 1000
shouldPauseForSilence ==
  micPermission = "true" /\ timeSinceNoise > silenceThresholdSeconds

\* scrollAccumulator.current += scrollSpeed * 0.5 (in quarters: + scrollSpeed)
accumulated == scrollAccumulator + scrollSpeed

\* Math.floor(scrollAccumulator.current) once the accumulator is >= 1
pixelsToScroll(acc) == IF acc >= 4 THEN acc \div 4 ELSE 0

\* The pixels the frame applies to scrollTop.
framePixels ==
  IF isPlaying /\ ~shouldPauseForSilence THEN pixelsToScroll(accumulated) ELSE 0

\* (a variant that drops the remainder once it scrolls, against which C5 is tested)
animateFrameDroppingRemainder ==
  /\ animationLoops > 0
  /\ IF isPlaying
     THEN IF shouldPauseForSilence
          THEN /\ isAutoPaused' = TRUE
               /\ UNCHANGED <<scrollAccumulator, scrollTop>>
          ELSE /\ isAutoPaused' = FALSE
               /\ scrollTop' = clampScroll(scrollTop + pixelsToScroll(accumulated))
               /\ scrollAccumulator' = IF accumulated >= 4 THEN 0 ELSE accumulated
     ELSE UNCHANGED <<isAutoPaused, scrollAccumulator, scrollTop>>
  /\ progress' = updateProgressBar(scrollTop)
  /\ animationFrameRef' = TRUE
  /\ UNCHANGED <<scrollSpeed, silenceThresholdSeconds, timeSinceNoise,
                 maxScroll, mediaCore, animationLoops, storeVars>>

\* One run of the animation-frame callback (containerRef is set while the
\* view is mounted): the progress bar is updated from the position the frame
\* finds, the scroll step is made, and the next frame is requested.
animateFrame ==
  /\ animationLoops > 0
  /\ IF isPlaying
     THEN IF shouldPauseForSilence
          THEN /\ isAutoPaused' = TRUE
               /\ UNCHANGED <<scrollAccumulator, scrollTop>>
          ELSE /\ isAutoPaused' = FALSE
               /\ scrollTop' = clampScroll(scrollTop + pixelsToScroll(accumulated))
               /\ scrollAccumulator' = accumulated - 4 * pixelsToScroll(accumulated)
     ELSE UNCHANGED <<isAutoPaused, scrollAccumulator, scrollTop>>
  /\ progress' = updateProgressBar(scrollTop)
  /\ animationFrameRef' = TRUE
  /\ UNCHANGED <<scrollSpeed, silenceThresholdSeconds, timeSinceNoise,
                 maxScroll, mediaCore, animationLoops, storeVars>>

animate == animateFrame /\ UNCHANGED historyVars

\* What the analyser can read: sound only from an open context fed by a live
\* stream, silence otherwise.
audibleLevels ==
  IF audioContextRef = "open" /\ analyserSource # "none" THEN Levels ELSE {0}

\* (a variant whose threshold test is >=, against which C3 is tested)
analyzeVolumeAtThreshold(average) ==
  /\ analyserRef /\ volumeLoops > 0
  /\ average \in audibleLevels
  /\ IF average >= NoiseThreshold
     THEN timeSinceNoise' = 0 /\ isAutoPaused' = FALSE
     ELSE UNCHANGED <<timeSinceNoise, isAutoPaused>>
  /\ UNCHANGED <<scrollSpeed, silenceThresholdSeconds, scrollAccumulator,
                 scrollTop, mediaVars, storeVars,
                 historyVars, viewVars>>

\* One run of the volume-analysis frame callback with the given mean (the
\* mean is also shown as a level bar, which the model leaves out).
analyzeVolume(average) ==
  /\ analyserRef /\ volumeLoops > 0
  /\ average \in audibleLevels
  /\ IF average > NoiseThreshold
     THEN timeSinceNoise' = 0 /\ isAutoPaused' = FALSE
     ELSE UNCHANGED <<timeSinceNoise, isAutoPaused>>
  /\ UNCHANGED <<scrollSpeed, silenceThresholdSeconds, scrollAccumulator,
                 scrollTop, mediaVars, storeVars,
                 historyVars, viewVars>>

\* Half a second passes.
Tick ==
  /\ timeSinceNoise' = Min(SilenceCap, timeSinceNoise + 1)
  /\ UNCHANGED <<scrollSpeed, silenceThresholdSeconds, scrollAccumulator,
                 scrollTop, isAutoPaused, mediaVars, storeVars,
                 historyVars, viewVars>>

\* Space, or the Play / Pause button
togglePlay ==
  /\ Commit([Cur EXCEPT !.isPlaying = ~isPlaying])
  /\ UNCHANGED <<scrollVars, storeVars, historyVars, viewVars>>

ArrowUp ==
  /\ scrollTop' = clampScroll(scrollTop - NudgePixels)
  /\ progress' = updateProgressBar(scrollTop')
  /\ UNCHANGED <<scrollSpeed, silenceThresholdSeconds, scrollAccumulator,
                 timeSinceNoise, isAutoPaused, maxScroll, mediaVars, storeVars,
                 historyVars>>

ArrowDown ==
  /\ scrollTop' = clampScroll(scrollTop + NudgePixels)
  /\ progress' = updateProgressBar(scrollTop')
  /\ UNCHANGED <<scrollSpeed, silenceThresholdSeconds, scrollAccumulator,
                 timeSinceNoise, isAutoPaused, maxScroll, mediaVars, storeVars,
                 historyVars>>

\* (a variant without the upper clamp, against which C17 is tested)
SpeedUpKeyUnclamped ==
  /\ scrollSpeed' = scrollSpeed + 1
  /\ animationEffect(scrollSpeed' # scrollSpeed)
  /\ UNCHANGED <<silenceThresholdSeconds, scrollAccumulator, scrollTop,
                 timeSinceNoise, isAutoPaused, mediaCore, storeVars,
                 historyVars, viewVars>>

SpeedUpKey ==
  /\ scrollSpeed' = Min(MaxSpeed2, scrollSpeed + 1)
  /\ animationEffect(scrollSpeed' # scrollSpeed)
  /\ UNCHANGED <<silenceThresholdSeconds, scrollAccumulator, scrollTop,
                 timeSinceNoise, isAutoPaused, mediaCore, storeVars,
                 historyVars, viewVars>>

SpeedDownKey ==
  /\ scrollSpeed' = Max(0, scrollSpeed - 1)
  /\ animationEffect(scrollSpeed' # scrollSpeed)
  /\ UNCHANGED <<silenceThresholdSeconds, scrollAccumulator, scrollTop,
                 timeSinceNoise, isAutoPaused, mediaCore, storeVars,
                 historyVars, viewVars>>

\* the Scroll Speed slider
setScrollSpeed(v) ==
  /\ v \in 0..SliderMaxSpeed2
  /\ scrollSpeed' = v
  /\ animationEffect(v # scrollSpeed)
  /\ UNCHANGED <<silenceThresholdSeconds, scrollAccumulator, scrollTop,
                 timeSinceNoise, isAutoPaused, mediaCore, storeVars,
                 historyVars, viewVars>>

\* the Auto-Pause slider
setSilenceThresholdSeconds(v) ==
  /\ v \in SliderMinThreshold2..SliderMaxThreshold2
  /\ silenceThresholdSeconds' = v
  /\ animationEffect(v # silenceThresholdSeconds)
  /\ UNCHANGED <<scrollSpeed, scrollAccumulator, scrollTop,
                 timeSinceNoise, isAutoPaused, mediaCore, storeVars,
                 historyVars, viewVars>>


\* ------------------------------------------ background media manager: actions
rest == <<scrollVars, storeVars, historyVars, viewVars>>

\* the Cam button
ToggleCamera ==
  /\ acquisitions < MaxAcquisitions
  /\ Commit(Render(Cur, handleToggleCamera(Cur)))
  /\ UNCHANGED rest

\* the Window button
ToggleScreen ==
  /\ acquisitions < MaxAcquisitions
  /\ Commit(Render(Cur, handleToggleScreen(Cur)))
  /\ UNCHANGED rest

\* the camera select (disabled while recording or sharing the screen)
SelectVideo(d) ==
  /\ acquisitions < MaxAcquisitions
  /\ ~(isRecording \/ isScreenShareOn)
  /\ selectedVideoId # 0 /\ d \in 1..NumDevices /\ d # selectedVideoId
  /\ Commit(Render(Cur, [Cur EXCEPT !.selectedVideoId = d]))
  /\ UNCHANGED rest

\* the microphone select (disabled while recording)
SelectAudio(d) ==
  /\ acquisitions < MaxAcquisitions
  /\ ~isRecording
  /\ selectedAudioId # 0 /\ d \in 1..NumDevices /\ d # selectedAudioId
  /\ Commit(Render(Cur, [Cur EXCEPT !.selectedAudioId = d]))
  /\ UNCHANGED rest

CameraAcquired ==
  /\ pendingCamera > 0
  /\ Commit(Render(Cur, cameraAcquired(Cur)))
  /\ UNCHANGED rest

CameraFailed ==
  /\ pendingCamera > 0
  /\ Commit(Render(Cur, cameraFailed(Cur)))
  /\ UNCHANGED rest

ScreenAcquired ==
  /\ pendingScreen > 0
  /\ Commit(Render(Cur, screenAcquired(Cur)))
  /\ UNCHANGED rest

ScreenFailed ==
  /\ pendingScreen > 0
  /\ Commit(Render(Cur, screenFailed(Cur)))
  /\ UNCHANGED rest

MicAcquired ==
  /\ pendingMic > 0
  /\ Commit(Render(Cur, micAcquired(Cur)))
  /\ UNCHANGED rest

MicFailed ==
  /\ pendingMic > 0
  /\ Commit(Render(Cur, micFailed(Cur)))
  /\ UNCHANGED rest

DevicesAcquired ==
  /\ devicesPending
  /\ Commit(Render(Cur, devicesAcquired(Cur)))
  /\ UNCHANGED rest

DevicesFailed ==
  /\ devicesPending
  /\ Commit(Render(Cur, devicesFailed(Cur)))
  /\ UNCHANGED rest

\* The user ends the share of the held screen stream in the browser's own UI.
StopSharingHeld ==
  /\ mediaStreamRef = "screen"
  /\ Commit(Render(Cur, screenEnded(recorderTracksEnded(Cur, "held"))))
  /\ UNCHANGED rest

\* The same for a screen stream that is live but no longer held; ofRecorder
\* says whether it is the one a running recorder records.
StopSharingLeaked(ofRecorder) ==
  /\ leakedScreen > 0
  /\ ofRecorder => recorderStream = "leakedScreen"
  /\ (recorderStream = "leakedScreen" /\ leakedScreen = 1) => ofRecorder
  /\ LET gone == [Cur EXCEPT !.leakedScreen = @ - 1]
         ended == IF ofRecorder THEN recorderTracksEnded(gone, "leakedScreen")
                                ELSE gone
     IN Commit(Render(Cur, screenEnded(ended)))
  /\ UNCHANGED rest

\* the REC button, rendered while a background source is on
ToggleRecording(outcome) ==
  /\ isCameraOn \/ isScreenShareOn
  /\ isRecording \/ mediaRecorderRef < MaxTakes
  /\ isRecording => outcome = "started"
  /\ Commit(Render(Cur, toggleRecording(Cur, outcome)))
  /\ UNCHANGED rest

DataAvailable(k, size) ==
  /\ k \in pendingData
  /\ Commit(Render(Cur, ondataavailable(Cur, k, size)))
  /\ UNCHANGED rest

\* ---- the Prompter view is torn down (Back, which unmounts the component)
\* The effect cleanups run: the animation effect cancels its pending frame, the
\* initial audio effect closes the context audioContextRef holds at that time,
\* the key listener is removed. Nothing else is released.
teardown(s) ==
  [s EXCEPT !.mounted = FALSE,
            !.audioContextRef = IF @ = "null" THEN "null" ELSE "closed",
            !.openContexts = IF s.audioContextRef = "open" THEN @ - 1 ELSE @]

Teardown ==
  /\ mounted
  /\ Commit(teardown(Cur))
  /\ UNCHANGED rest

\* A run of the volume-analysis callback after the teardown: it reads the
\* analyser, stamps the time of a loud sample (a ref) and reschedules itself;
\* its state setters are ignored, the component being unmounted.
analyzeVolumeUnmounted(average) ==
  /\ ~mounted
  /\ analyserRef /\ volumeLoops > 0
  /\ average \in audibleLevels
  /\ timeSinceNoise' = IF average > NoiseThreshold THEN 0 ELSE timeSinceNoise
  /\ UNCHANGED <<scrollSpeed, silenceThresholdSeconds, scrollAccumulator,
                 scrollTop, isAutoPaused, mediaVars, storeVars,
                 historyVars, viewVars>>

\* ---- the Prompter right after it is mounted
Blank ==
  [mounted |-> TRUE,
   isPlaying |-> FALSE, micPermission |-> "null",
   isCameraOn |-> FALSE, isScreenShareOn |-> FALSE,
   selectedVideoId |-> 0, selectedAudioId |-> 0,
   mediaStreamRef |-> "null", videoPreviewSrc |-> "null",
   pendingCamera |-> 0, pendingScreen |-> 0,
   pendingMic |-> 0, devicesPending |-> FALSE,
   leakedCamera |-> 0, leakedScreen |-> 0,
   devicesStreamLive |-> FALSE, acquisitions |-> 0,
   audioContextRef |-> "null", openContexts |-> 0,
   liveMicStreams |-> 0, analyserRef |-> FALSE,
   analyserSource |-> "none", volumeLoops |-> 0,
   isRecording |-> FALSE, recordedChunks |-> <<>>,
   downloadUrl |-> <<>>, mediaRecorderRef |-> 0,
   recorderStream |-> "none", pendingData |-> {}]

\* The mount effects in declaration order: getDevices, the mode effect, the
\* download-url effect, the initial audio setup.
Mounted ==
  LET devices == [Blank EXCEPT !.devicesPending = TRUE, !.acquisitions = @ + 1]
      mode == modeEffect(devices)
      url == downloadUrlEffect(mode)
  IN IF ~url.isCameraOn /\ ~url.isScreenShareOn
     THEN initAudioAnalysisOnly(url) ELSE url

InitMediaWith(m) ==
  /\ mounted = m.mounted
  /\ isPlaying = m.isPlaying
  /\ micPermission = m.micPermission
  /\ isCameraOn = m.isCameraOn
  /\ isScreenShareOn = m.isScreenShareOn
  /\ selectedVideoId = m.selectedVideoId
  /\ selectedAudioId = m.selectedAudioId
  /\ mediaStreamRef = m.mediaStreamRef
  /\ videoPreviewSrc = m.videoPreviewSrc
  /\ pendingCamera = m.pendingCamera
  /\ pendingScreen = m.pendingScreen
  /\ pendingMic = m.pendingMic
  /\ devicesPending = m.devicesPending
  /\ leakedCamera = m.leakedCamera
  /\ leakedScreen = m.leakedScreen
  /\ devicesStreamLive = m.devicesStreamLive
  /\ acquisitions = m.acquisitions
  /\ audioContextRef = m.audioContextRef
  /\ openContexts = m.openContexts
  /\ liveMicStreams = m.liveMicStreams
  /\ analyserRef = m.analyserRef
  /\ analyserSource = m.analyserSource
  /\ volumeLoops = m.volumeLoops
  /\ isRecording = m.isRecording
  /\ recordedChunks = m.recordedChunks
  /\ downloadUrl = m.downloadUrl
  /\ mediaRecorderRef = m.mediaRecorderRef
  /\ recorderStream = m.recorderStream
  /\ pendingData = m.pendingData
  /\ animationLoops = (IF m.mounted THEN 1 ELSE 0)
  /\ animationFrameRef = TRUE

InitMedia == InitMediaWith(Mounted)

\* The view as rendered at the mount for a text of the given scrollable
\* extent: the bar has style width 0%.
InitView(extent) == progress = <<0, 1>> /\ maxScroll = extent

InitScrollOver(extent) ==
  /\ isAutoPaused = FALSE
  /\ scrollSpeed = InitialSpeed2
  /\ silenceThresholdSeconds = InitialThreshold2
  /\ scrollAccumulator = 0
  /\ scrollTop = 0
  /\ timeSinceNoise = 0
  /\ InitView(extent)

InitScroll == InitScrollOver(MaxScroll)

InitHistory == frames = 0 /\ applied = 0


\* -------------------------------------------------------- script store (App)
\* Text is a sequence of characters. A script is a record id, title, content,
\* lastModified; ids are numbers handed out in order (crypto.randomUUID()
\* never repeats), 0 is the empty id ''.
NewScriptTitle == <<"N", "e", "w", " ", "S", "c", "r", "i", "p", "t">>
UntitledTitle ==
  <<"U", "n", "t", "i", "t", "l", "e", "d", " ", "S", "c", "r", "i", "p", "t">>
WelcomeTitle ==
  <<"W", "e", "l", "c", "o", "m", "e", " ", "t", "o", " ",
    "L", "e", "g", "g", ".", "i", "o">>

\* What the user types into the text area and the title input.
\* A title one character longer than the title input takes.
LongTitle == [i \in 1..(TitleMaxLength + 1) |-> IF i > TitleMaxLength THEN "z" ELSE "x"]

ContentInputs == {<<>>, <<"a">>}
TitleInputs == {<<>>, <<"t">>, LongTitle}

\* (a variant that writes to every script, against which C26 is tested)
handleUpdateScriptEvery(list, active, content, now) ==
  [i \in DOMAIN list |->
     [list[i] EXCEPT !.content = content, !.lastModified = now]]

handleUpdateScript(list, active, content, now) ==
  [i \in DOMAIN list |->
     IF list[i].id = active
     THEN [list[i] EXCEPT !.content = content, !.lastModified = now]
     ELSE list[i]]

handleRenameScript(list, active, title, now) ==
  [i \in DOMAIN list |->
     IF list[i].id = active
     THEN [list[i] EXCEPT !.title = title, !.lastModified = now]
     ELSE list[i]]

\* Each of these gives the collection and the active id the handler leaves.
\* (a variant whose capacity test is >, against which C10 is tested)
handleCreateScriptOffByOne(list, active, id, now) ==
  IF Len(list) > MAX_SCRIPTS
  THEN [scripts |-> list, activeScriptId |-> active]
  ELSE [scripts |-> <<[id |-> id, title |-> NewScriptTitle, content |-> <<>>,
                       lastModified |-> now]>> \o list,
        activeScriptId |-> id]

\* (a variant that adds the new script at the end, against which C25 is tested)
handleCreateScriptAtEnd(list, active, id, now) ==
  IF Len(list) >= MAX_SCRIPTS
  THEN [scripts |-> list, activeScriptId |-> active]
  ELSE [scripts |-> Append(list, [id |-> id, title |-> NewScriptTitle,
                                  content |-> <<>>, lastModified |-> now]),
        activeScriptId |-> id]

handleCreateScript(list, active, id, now) ==
  IF Len(list) >= MAX_SCRIPTS
  THEN [scripts |-> list, activeScriptId |-> active]
  ELSE [scripts |-> <<[id |-> id, title |-> NewScriptTitle, content |-> <<>>,
                       lastModified |-> now]>> \o list,
        activeScriptId |-> id]

\* (a variant whose rename starts from the collection as it was and so undoes
\* the clearing of the content, against which C12 is tested)
handleDeleteScriptRenameOnly(list, active, id, now) ==
  IF Len(list) <= 1
  THEN [scripts |-> handleRenameScript(list, active, UntitledTitle, now),
        activeScriptId |-> active]
  ELSE LET newScripts == SelectSeq(list, LAMBDA s : s.id # id)
       IN [scripts |-> newScripts,
           activeScriptId |-> IF id = active THEN newScripts[1].id ELSE active]

\* (a variant that never moves the active id, against which C13 is tested)
handleDeleteScriptKeepsActive(list, active, id, now) ==
  IF Len(list) <= 1
  THEN [scripts |-> handleRenameScript(handleUpdateScript(list, active, <<>>, now),
                                       active, UntitledTitle, now),
        activeScriptId |-> active]
  ELSE [scripts |-> SelectSeq(list, LAMBDA s : s.id # id),
        activeScriptId |-> active]

\* (a variant that selects the first script of the collection as it was before
\* the removal, against which C33 is tested)
handleDeleteScriptSelectsOldFirst(list, active, id, now) ==
  IF Len(list) <= 1
  THEN [scripts |-> handleRenameScript(handleUpdateScript(list, active, <<>>, now),
                                       active, UntitledTitle, now),
        activeScriptId |-> active]
  ELSE [scripts |-> SelectSeq(list, LAMBDA s : s.id # id),
        activeScriptId |-> IF id = active THEN list[1].id ELSE active]

handleDeleteScript(list, active, id, now) ==
  IF Len(list) <= 1
  THEN [scripts |-> handleRenameScript(handleUpdateScript(list, active, <<>>, now),
                                       active, UntitledTitle, now),
        activeScriptId |-> active]
  ELSE LET newScripts == SelectSeq(list, LAMBDA s : s.id # id)
       IN [scripts |-> newScripts,
           activeScriptId |-> IF id = active THEN newScripts[1].id ELSE active]

\* JSON.stringify(scripts): every record is written with its four fields.
stringify(list) ==
  [i \in DOMAIN list |->
     [id |-> list[i].id, hasTitle |-> TRUE, title |-> list[i].title,
      content |-> list[i].content, lastModified |-> list[i].lastModified]]

\* s.content.split('\n')[0].substring(0, 30)
firstLine(text) ==
  LET stops == {i \in 1..Len(text) : text[i] = "\n"}
      n == IF stops = {} THEN Len(text)
           ELSE (CHOOSE i \in stops : \A j \in stops : i <= j) - 1
  IN SubSeq(text, 1, Min(n, FirstLineCut))

\* The migration of the scripts initializer: a missing or empty title is
\* replaced (s.title || ...).
migrate(r) ==
  [id |-> r.id,
   title |-> IF r.hasTitle /\ r.title # <<>> THEN r.title
             ELSE IF r.content # <<>> THEN firstLine(r.content)
             ELSE UntitledTitle,
   content |-> r.content,
   lastModified |-> r.lastModified]

\* storage is <<>> (no value under the key) or <<array>>.
loadScripts(stored, freshId, now) ==
  IF stored # <<>>
  THEN [i \in DOMAIN stored[1] |-> migrate(stored[1][i])]
  ELSE <<[id |-> freshId, title |-> WelcomeTitle, content |-> <<>>,
          lastModified |-> now]>>

\* A collection the app saved in an earlier session: n scripts, ids 1..n, the
\* first with some content.
storedArray(n) ==
  [i \in 1..n |-> [id |-> i, hasTitle |-> TRUE, title |-> <<"t">>,
                   content |-> IF i = 1 THEN <<"a">> ELSE <<>>,
                   lastModified |-> 0]]

scriptIds == {scripts[i].id : i \in DOMAIN scripts}

\* The store after App is mounted: the collection is loaded, the first script
\* is active, and the auto-save effect has written the collection back.
InitStoreFrom(stored, n) ==
  /\ scripts = loadScripts(stored, n + 1, 0)
  /\ activeScriptId = (IF Len(scripts) > 0 THEN scripts[1].id ELSE 0)
  /\ storage = <<stringify(scripts)>>
  /\ nextId = n + 2
  /\ clock = 1
  /\ storeOp = "load"
  /\ storageWritable = TRUE
  /\ persistError = "none"

InitStoreFresh == InitStoreFrom(<<>>, 0)

\* Sizes of the saved collections explored: small, and at and next to capacity.
StoredSizes == {1, 2, MAX_SCRIPTS - 1, MAX_SCRIPTS}

InitStore ==
  \/ InitStoreFresh
  \/ \E n \in StoredSizes : InitStoreFrom(<<storedArray(n)>>, n)

\* (a variant that writes nothing, against which C27 is tested)
persistNothing(list) == [storage |-> storage, persistError |-> persistError]

\* The auto-save effect: localStorage.setItem(KEY, JSON.stringify(scripts)).
\* setItem throws when the storage is full or disabled, and the effect has no
\* handler for it: the exception leaves the effect.
persist(list) ==
  IF storageWritable
  THEN [storage |-> <<stringify(list)>>, persistError |-> persistError]
  ELSE [storage |-> storage, persistError |-> "uncaught"]

\* A store handler's result committed, with the auto-save effect; the effect
\* runs when the handler set the collection (a create at capacity does not).
CommitStore(r, op) ==
  /\ scripts' = r.scripts
  /\ activeScriptId' = r.activeScriptId
  /\ storage' = (IF op = "create-full" THEN storage
                                        ELSE persist(r.scripts).storage)
  /\ persistError' = (IF op = "create-full" THEN persistError
                                             ELSE persist(r.scripts).persistError)
  /\ storeOp' = op
  /\ UNCHANGED <<storageWritable, prompterVars, historyVars, viewVars>>

\* the New Script button (disabled at 10 scripts; the handler checks again)
CreateScript ==
  /\ clock < MaxClock
  /\ CommitStore(handleCreateScript(scripts, activeScriptId, nextId, clock),
                 IF Len(scripts) >= MAX_SCRIPTS THEN "create-full" ELSE "create")
  /\ nextId' = nextId + 1
  /\ clock' = clock + 1

UpdateScript(content) ==
  /\ clock < MaxClock
  /\ CommitStore([scripts |-> handleUpdateScript(scripts, activeScriptId, content, clock),
                  activeScriptId |-> activeScriptId], "update")
  /\ clock' = clock + 1
  /\ UNCHANGED nextId

\* (a variant that passes the text on uncut, against which C14 is tested)
titleInputUncut(raw) == raw

\* The title input has maxLength 50: what reaches the handler is cut there.
titleInput(raw) == SubSeq(raw, 1, Min(Len(raw), TitleMaxLength))

RenameScript(raw) ==
  /\ clock < MaxClock
  /\ CommitStore([scripts |-> handleRenameScript(scripts, activeScriptId,
                                                 titleInput(raw), clock),
                  activeScriptId |-> activeScriptId], "rename")
  /\ clock' = clock + 1
  /\ UNCHANGED nextId

\* the trash button of a listed script
DeleteScript(id) ==
  /\ id \in scriptIds
  /\ clock < MaxClock
  /\ CommitStore(handleDeleteScript(scripts, activeScriptId, id, clock), "delete")
  /\ clock' = clock + 1
  /\ UNCHANGED nextId

\* a click on a listed script
SelectScript(id) ==
  /\ id \in scriptIds
  /\ activeScriptId' = id
  /\ storeOp' = "select"
  /\ UNCHANGED <<scripts, storage, nextId, clock, storageWritable, persistError,
                 prompterVars, historyVars, viewVars>>

\* --------------------------------------------------------------- specifications
\* The prompter without a background source: playback, the audio monitor and
\* the acquisitions the mount starts.
InitPrompter == InitScroll /\ InitMedia /\ InitStoreFresh /\ InitHistory

NextPlayback ==
  \/ animate
  \/ \E average \in Levels : analyzeVolume(average)
  \/ Tick
  \/ togglePlay
  \/ ArrowUp
  \/ ArrowDown
  \/ (scrollSpeed < SpeedCap /\ SpeedUpKey)
  \/ SpeedDownKey
  \/ \E v \in 0..SpeedCap : setScrollSpeed(v)
  \/ \E v \in SliderMinThreshold2..MaxThreshold : setSilenceThresholdSeconds(v)
  \/ MicAcquired
  \/ MicFailed
  \/ DevicesAcquired
  \/ DevicesFailed

SpecPlayback == InitPrompter /\ [][NextPlayback]_vars

\* The same without the enumeration of the devices, which stays pending: the
\* frame and the sample read neither the device lists nor the selection.
NextAutoPause ==
  \/ animate
  \/ \E average \in Levels : analyzeVolume(average)
  \/ Tick
  \/ togglePlay
  \/ ArrowUp
  \/ ArrowDown
  \/ (scrollSpeed < SpeedCap /\ SpeedUpKey)
  \/ SpeedDownKey
  \/ \E v \in 0..SpeedCap : setScrollSpeed(v)
  \/ \E v \in SliderMinThreshold2..MaxThreshold : setSilenceThresholdSeconds(v)
  \/ MicAcquired
  \/ MicFailed

SpecAutoPause == InitPrompter /\ [][NextAutoPause]_vars


\* One scroll run: playback is on, the speed was chosen before the run, and
\* only frames happen; frames and applied count them and the pixels they apply.
animateCounted ==
  /\ frames < MaxFrames
  /\ animateFrame
  /\ frames' = frames + 1
  /\ applied' = applied + framePixels

InitScrollRun ==
  /\ InitMediaWith([Mounted EXCEPT !.isPlaying = TRUE])
  /\ InitStoreFresh
  /\ InitHistory
  /\ isAutoPaused = FALSE
  /\ scrollSpeed \in 0..MaxSpeed2
  /\ silenceThresholdSeconds = InitialThreshold2
  /\ scrollAccumulator = 0
  /\ scrollTop = 0
  /\ timeSinceNoise = 0
  /\ InitView(MaxScroll)

NextScrollRun == animateCounted

SpecScroll == InitScrollRun /\ [][NextScrollRun]_vars

\* The background media manager and the audio monitor's graph.
NextMedia ==
  \/ ToggleCamera
  \/ ToggleScreen
  \/ \E d \in 1..NumDevices : SelectVideo(d)
  \/ \E d \in 1..NumDevices : SelectAudio(d)
  \/ CameraAcquired
  \/ CameraFailed
  \/ ScreenAcquired
  \/ ScreenFailed
  \/ MicAcquired
  \/ MicFailed
  \/ DevicesAcquired
  \/ DevicesFailed
  \/ StopSharingHeld
  \/ \E ofRecorder \in BOOLEAN : StopSharingLeaked(ofRecorder)

SpecMedia == InitPrompter /\ [][NextMedia]_vars

\* The recorder with the background source it records and the playback it is
\* coupled to. The run starts once both microphone requests of the mount have
\* been granted; the scroll settings stay as mounted, the device lists are not
\* yet enumerated, and microphone requests made later stay pending.
InitSettled ==
  /\ InitScroll
  /\ InitMediaWith(micAcquired(micAcquired(Mounted)))
  /\ InitStoreFresh
  /\ InitHistory

NextRecording ==
  \/ ToggleCamera
  \/ ToggleScreen
  \/ CameraAcquired
  \/ CameraFailed
  \/ ScreenAcquired
  \/ ScreenFailed
  \/ StopSharingHeld
  \/ \E ofRecorder \in BOOLEAN : StopSharingLeaked(ofRecorder)
  \/ \E outcome \in {"started", "failed"} : ToggleRecording(outcome)
  \/ \E k \in 1..MaxTakes, size \in {0, 1} : DataAvailable(k, size)
  \/ togglePlay
  \/ animate
  \/ \E average \in Levels : analyzeVolume(average)
  \/ Tick

SpecRecording == InitSettled /\ [][NextRecording]_vars

\* The recorder and its background source alone: playback never touches the
\* recorder, its chunk buffer or the download URL.
NextTakes ==
  \/ ToggleCamera
  \/ ToggleScreen
  \/ CameraAcquired
  \/ CameraFailed
  \/ ScreenAcquired
  \/ ScreenFailed
  \/ StopSharingHeld
  \/ \E ofRecorder \in BOOLEAN : StopSharingLeaked(ofRecorder)
  \/ \E outcome \in {"started", "failed"} : ToggleRecording(outcome)
  \/ \E k \in 1..MaxTakes, size \in {0, 1} : DataAvailable(k, size)

SpecTakes == InitSettled /\ [][NextTakes]_vars

\* Takes recorded from sources that are granted, with the platform's guarantee
\* that the data of a stopped recorder is delivered: the dataavailable event of
\* a take is fired while one is queued.
NextGrantedTakes ==
  \/ ToggleCamera
  \/ ToggleScreen
  \/ CameraAcquired
  \/ ScreenAcquired
  \/ \E outcome \in {"started", "failed"} : ToggleRecording(outcome)
  \/ \E k \in 1..MaxTakes, size \in {0, 1} : DataAvailable(k, size)

SpecTakesFair ==
  /\ InitSettled
  /\ [][NextGrantedTakes]_vars
  /\ WF_vars(\E k \in 1..MaxTakes, size \in {0, 1} : DataAvailable(k, size))

\* The REC button with playback, the recorder's data staying undelivered:
\* ondataavailable touches neither isPlaying nor isRecording.
NextStopPlayback ==
  \/ ToggleCamera
  \/ ToggleScreen
  \/ CameraAcquired
  \/ CameraFailed
  \/ ScreenAcquired
  \/ ScreenFailed
  \/ StopSharingHeld
  \/ \E ofRecorder \in BOOLEAN : StopSharingLeaked(ofRecorder)
  \/ \E outcome \in {"started", "failed"} : ToggleRecording(outcome)
  \/ togglePlay
  \/ animate
  \/ \E average \in Levels : analyzeVolume(average)
  \/ Tick

SpecStopPlayback == InitSettled /\ [][NextStopPlayback]_vars

\* The life of the view up to and after its teardown: the requests a mount
\* and a camera toggle start may resolve before or after it.
NextTeardown ==
  \/ Teardown
  \/ MicAcquired
  \/ MicFailed
  \/ CameraAcquired
  \/ (mounted /\ CameraFailed)
  \/ (mounted /\ ToggleCamera)
  \/ (mounted /\ togglePlay)
  \/ (mounted /\ animate)
  \/ (mounted /\ \E average \in Levels : analyzeVolume(average))
  \/ \E average \in Levels : analyzeVolumeUnmounted(average)
  \/ Tick

SpecTeardown == InitPrompter /\ [][NextTeardown]_vars

\* The speed controls over their whole range, with playback and frames.
NextSpeed ==
  \/ SpeedUpKey
  \/ SpeedDownKey
  \/ \E v \in 0..SliderMaxSpeed2 : setScrollSpeed(v)
  \/ togglePlay
  \/ animate

SpecSpeed == InitPrompter /\ [][NextSpeed]_vars

\* The prompter from the moment the first microphone request of the mount is
\* denied: playback, the audio monitor, the requests still pending and the
\* source buttons.
InitAfterDenial ==
  /\ InitScroll
  /\ InitMediaWith(micFailed(Mounted))
  /\ InitStoreFresh
  /\ InitHistory

NextAfterDenial ==
  \/ animate
  \/ \E average \in Levels : analyzeVolume(average)
  \/ Tick
  \/ togglePlay
  \/ MicAcquired
  \/ MicFailed
  \/ ToggleCamera
  \/ CameraAcquired
  \/ CameraFailed
  \/ ToggleScreen
  \/ ScreenAcquired
  \/ ScreenFailed
  \/ StopSharingHeld

SpecAfterDenial == InitAfterDenial /\ [][NextAfterDenial]_vars

\* The script store of App, from a fresh browser or from a collection saved
\* by an earlier session.
InitApp == InitScroll /\ InitMedia /\ InitHistory /\ InitStore

\* The ids a run can hand out.
StoreIds == 1..(MAX_SCRIPTS + MaxClock + 1)

NextStore ==
  \/ CreateScript
  \/ \E content \in ContentInputs : UpdateScript(content)
  \/ \E raw \in TitleInputs : RenameScript(raw)
  \/ \E id \in StoreIds : DeleteScript(id)
  \/ \E id \in StoreIds : SelectScript(id)

SpecStore == InitApp /\ [][NextStore]_vars

\* App is mounted again in a later session: the collection is loaded from
\* what the auto-save effect persisted, and saved again.
Reload ==
  /\ scripts' = loadScripts(storage, nextId, clock)
  /\ activeScriptId' = (IF Len(scripts') > 0 THEN scripts'[1].id ELSE 0)
  /\ storage' = <<stringify(scripts')>>
  /\ storeOp' = "reload"
  /\ UNCHANGED <<nextId, clock, storageWritable, persistError,
                 prompterVars, historyVars, viewVars>>

\* A collection saved before scripts had titles: two records without the
\* title field, the first with content.
legacyArray ==
  [i \in 1..2 |-> [id |-> i, hasTitle |-> FALSE, title |-> <<>>,
                   content |-> IF i = 1 THEN <<"a", "\n", "b">> ELSE <<>>,
                   lastModified |-> 0]]

InitAppReload ==
  /\ InitScroll /\ InitMedia /\ InitHistory
  /\ (InitStore \/ InitStoreFrom(<<legacyArray>>, 2))

NextReload ==
  \/ NextStore
  \/ Reload

SpecReload == InitAppReload /\ [][NextReload]_vars

\* ---- storage failures
\* What can be under the key at startup besides nothing and an array the app
\* saved: getItem throws, the text is not JSON, the JSON is not an array.
StoredFailures == {"getItemThrows", "parseThrows", "notArray"}

\* The try / catch of the scripts initializer: every failure of the read, the
\* parse or the map falls through to the default collection.
loadStored(kind, stored, freshId, now) ==
  IF kind = "array" THEN loadScripts(stored, freshId, now)
                    ELSE loadScripts(<<>>, freshId, now)

\* App mounted over a value that cannot be used, the write of the mount's
\* auto-save effect having succeeded.
InitStoreUnreadable ==
  /\ \E kind \in StoredFailures : scripts = loadStored(kind, <<storedArray(2)>>, 1, 0)
  /\ activeScriptId = (IF Len(scripts) > 0 THEN scripts[1].id ELSE 0)
  /\ storageWritable = TRUE
  /\ storage = <<stringify(scripts)>>
  /\ persistError = "none"
  /\ nextId = 2
  /\ clock = 1
  /\ storeOp = "load-default"

\* The storage fills up or is disabled / is usable again (the environment).
StorageFills ==
  /\ storageWritable
  /\ storageWritable' = FALSE
  /\ UNCHANGED <<scripts, activeScriptId, storage, nextId, clock, storeOp,
                 persistError, prompterVars, historyVars, viewVars>>

StorageFrees ==
  /\ ~storageWritable
  /\ storageWritable' = TRUE
  /\ UNCHANGED <<scripts, activeScriptId, storage, nextId, clock, storeOp,
                 persistError, prompterVars, historyVars, viewVars>>

InitAppStorageFailure ==
  /\ InitScroll /\ InitMedia /\ InitHistory
  /\ (InitStore \/ InitStoreUnreadable)

\* Once an exception has left the effect React unmounts App: no handler runs.
NextStorageFailure ==
  \/ (persistError = "none" /\ CreateScript)
  \/ (persistError = "none" /\ \E content \in ContentInputs : UpdateScript(content))
  \/ (persistError = "none" /\ \E raw \in TitleInputs : RenameScript(raw))
  \/ (persistError = "none" /\ \E id \in StoreIds : DeleteScript(id))
  \/ (persistError = "none" /\ \E id \in StoreIds : SelectScript(id))
  \/ StorageFills
  \/ StorageFrees

SpecStorageFailure == InitAppStorageFailure /\ [][NextStorageFailure]_vars

\* The same store when the value under the key may be any JSON array, the
\* empty one included.
InitStoreAnyArray ==
  \/ InitStore
  \/ InitStoreFrom(<<storedArray(0)>>, 0)

InitAppAnyArray == InitScroll /\ InitMedia /\ InitHistory /\ InitStoreAnyArray

SpecStoreAnyArray == InitAppAnyArray /\ [][NextStore]_vars

\* The store over the small collections an earlier session saved, for what
\* holds of the ids: every listed script can be selected and deleted.
SmallSizes == {1, 2, 3}

InitStoreSmall ==
  \/ InitStoreFresh
  \/ \E n \in SmallSizes : InitStoreFrom(<<storedArray(n)>>, n)

InitAppSmall == InitScroll /\ InitMedia /\ InitHistory /\ InitStoreSmall

SpecStoreSmall == InitAppSmall /\ [][NextStore]_vars

\* The progress bar: playback over texts of every scrollable extent up to
\* MaxScroll (0: the text fits the view), the microphone granted.
InitProgress ==
  /\ \E extent \in 0..MaxScroll : InitScrollOver(extent)
  /\ InitMediaWith(micAcquired(micAcquired(Mounted)))
  /\ InitStoreFresh
  /\ InitHistory

NextProgress ==
  \/ animate
  \/ \E average \in Levels : analyzeVolume(average)
  \/ Tick
  \/ togglePlay
  \/ ArrowUp
  \/ ArrowDown
  \/ (scrollSpeed < SpeedCap /\ SpeedUpKey)
  \/ SpeedDownKey

SpecProgress == InitProgress /\ [][NextProgress]_vars

\* ---- the load alone
\* Records as a session of this or of an earlier version of the app may have
\* saved them: with a title (empty or not) or without the field, with no
\* content, with two lines, with one line longer than the cut of the migration.
LongLine == [i \in 1..(FirstLineCut + 1) |-> IF i > FirstLineCut THEN "z" ELSE "x"]

SavedContents == {<<>>, <<"a", "\n", "b">>, LongLine}

SavedRecords ==
  {[id |-> 0, hasTitle |-> h, title |-> t, content |-> c, lastModified |-> 0] :
     h \in BOOLEAN, t \in {<<>>, <<"t">>}, c \in SavedContents}

\* Arrays of up to MaxSaved such records, with ids 1, 2, ...; a record
\* without the title field has no title text.
SavedArrays ==
  UNION {
    {[i \in 1..n |-> [f[i] EXCEPT !.id = i]] :
       f \in [1..n -> {r \in SavedRecords : r.hasTitle \/ r.title = <<>>}]} :
    n \in 1..MaxSaved}

\* Before App is mounted: the value under the storage key, no collection yet.
InitSaved ==
  /\ InitScroll /\ InitMedia /\ InitHistory
  /\ storage \in {<<a>> : a \in SavedArrays}
  /\ scripts = <<>>
  /\ activeScriptId = 0
  /\ nextId = MaxSaved + 1
  /\ clock = 1
  /\ storeOp = "saved"
  /\ storageWritable = TRUE
  /\ persistError = "none"

\* App is mounted over the saved value, edited, and mounted again.
NextLoad ==
  \/ Reload
  \/ (storeOp # "saved" /\ \E content \in ContentInputs : UpdateScript(content))
  \/ (storeOp # "saved" /\ \E raw \in TitleInputs : RenameScript(raw))

SpecLoad == InitSaved /\ [][NextLoad]_vars

\* ---------------------------------------------------------------------- claims

\* C1: in every reachable state isAutoPaused implies isPlaying. The code never
\* clears isAutoPaused when playback is stopped, so this is violated.
C1_AutoPausedOnlyWhilePlaying == isAutoPaused => isPlaying

\* C2: a frame evaluated while isPlaying sets isAutoPaused and leaves the
\* scroll position alone when the microphone is granted and the silence has
\* lasted longer than the threshold; otherwise it clears isAutoPaused and
\* performs the scroll step (the position, counted in quarter pixels with the
\* accumulator, advances by scrollSpeed, up to the end of the text).
C2_FrameDecidesAutoPause ==
  [][(animate /\ isPlaying) =>
       IF micPermission = "true" /\ timeSinceNoise > silenceThresholdSeconds
       THEN /\ isAutoPaused'
            /\ scrollTop' = scrollTop
            /\ scrollAccumulator' = scrollAccumulator
       ELSE /\ ~isAutoPaused'
            /\ scrollAccumulator' = (scrollAccumulator + scrollSpeed) % 4
            /\ scrollTop' = Min(MaxScroll,
                                scrollTop + (scrollAccumulator + scrollSpeed) \div 4)
    ]_vars

\* C2 witness: a frame has auto-paused playback after frames that scrolled.
C2_Witness ==
  /\ isPlaying /\ isAutoPaused /\ micPermission = "true"
  /\ timeSinceNoise > silenceThresholdSeconds
  /\ scrollAccumulator # 0

\* C3: a sample with mean > 10 stamps the time of the last noise and clears
\* isAutoPaused in the same step, and the frame that follows it while playing
\* is not auto-paused and performs the scroll step; a sample with mean <= 10
\* changes neither the stamp nor isAutoPaused.
C3_LoudSampleResumes ==
  [][/\ \A average \in Levels :
          analyzeVolume(average) =>
            IF average > NoiseThreshold
            THEN timeSinceNoise' = 0 /\ ~isAutoPaused'
            ELSE timeSinceNoise' = timeSinceNoise /\ isAutoPaused' = isAutoPaused
     /\ (animate /\ isPlaying /\ timeSinceNoise = 0) =>
          /\ ~isAutoPaused'
          /\ scrollAccumulator' = (scrollAccumulator + scrollSpeed) % 4
          /\ scrollTop' = Min(MaxScroll,
                              scrollTop + (scrollAccumulator + scrollSpeed) \div 4)
    ]_vars

\* C3 witness: playback is auto-paused after a silence and the monitor, fed by
\* a live stream, can sample a loud mean.
C3_Witness ==
  /\ isPlaying /\ isAutoPaused
  /\ timeSinceNoise > silenceThresholdSeconds
  /\ ENABLED analyzeVolume(NoiseThreshold + 1)

\* C5: after n consecutive playing, not auto-paused frames from accumulator 0
\* the pixels applied are floor(n * scrollSpeed * 0.5), the accumulator is in
\* [0, 1), the applied total is less than 1 pixel behind the fractional total,
\* at scrollSpeed 1 the position moves by 1 on every second frame, and the
\* position is the applied total up to the end of the text.
C5_ScrollTotal ==
  /\ applied = (frames * scrollSpeed) \div 4
  /\ scrollTop = Min(MaxScroll, applied)
  /\ scrollAccumulator \in 0..3
  /\ 4 * applied <= frames * scrollSpeed
  /\ frames * scrollSpeed - 4 * applied < 4
  /\ scrollSpeed = 2 => applied = frames \div 2

\* C5 witness: four frames at scrollSpeed 1 have applied two pixels.
C5_Witness == scrollSpeed = 2 /\ frames = 4 /\ applied = 2

\* C4: a step that stops a recording (isRecording goes from true to false, the
\* REC button pressed while recording) leaves isPlaying = false and
\* isRecording = false whatever the playback state was; a frame evaluated
\* while isPlaying is false moves neither the position nor the accumulator;
\* and isPlaying goes from false to true only by the play toggle.
C4_StopRecordingStopsPlayback ==
  [][/\ ((isRecording /\ \E outcome \in {"started", "failed"} :
                            ToggleRecording(outcome))
          => ~isPlaying' /\ ~isRecording')
     /\ ((isRecording /\ ~isRecording') => ~isPlaying')
     /\ ((animate /\ ~isPlaying)
          => scrollTop' = scrollTop /\ scrollAccumulator' = scrollAccumulator)
     /\ ((~isPlaying /\ isPlaying') => togglePlay)
    ]_vars

\* C4 witness: a take has been stopped and its data is still to be delivered,
\* playback is off with the auto-pause flag still set, after frames scrolled.
C4_Witness ==
  /\ ~isRecording /\ mediaRecorderRef > 0 /\ mediaRecorderRef \in pendingData
  /\ ~isPlaying /\ isAutoPaused /\ scrollTop > 0

\* C6: the camera flag and the screen flag are never both true; toggling one
\* on while the other is on turns the other off in the same step; a failed
\* acquisition or a native stop-sharing event never sets a flag to true.
C6_ModesExclusive ==
  /\ [](~(isCameraOn /\ isScreenShareOn))
  /\ [][/\ ((ToggleCamera /\ ~isCameraOn /\ isScreenShareOn)
             => isCameraOn' /\ ~isScreenShareOn')
        /\ ((ToggleScreen /\ ~isScreenShareOn /\ isCameraOn)
             => isScreenShareOn' /\ ~isCameraOn')
        /\ ((\/ CameraFailed \/ ScreenFailed \/ MicFailed \/ DevicesFailed
             \/ StopSharingHeld
             \/ \E ofRecorder \in BOOLEAN : StopSharingLeaked(ofRecorder))
             => /\ isCameraOn' => isCameraOn
                /\ isScreenShareOn' => isScreenShareOn)
       ]_vars

\* C6 witness: the camera is on and a screen acquisition started earlier is
\* still pending, so the camera was toggled on while the screen was on.
C6_Witness == isCameraOn /\ ~isScreenShareOn /\ pendingScreen > 0

\* C7: at most one background capture stream has live tracks: the stream held
\* by mediaStreamRef is the only one, no stream was left live when a newly
\* acquired one was stored over it. Violated when two acquisitions are pending
\* at once: the second to resolve is stored over the first.
C7_OneLiveCaptureStream ==
  (IF mediaStreamRef = "null" THEN 0 ELSE 1) + leakedCamera + leakedScreen <= 1

\* C8: isRecording implies that the camera or the screen flag is on and that
\* mediaStreamRef holds a live stream. Violated when the source is toggled
\* off, switched or ended natively while a recording runs.
C8_RecordingHasLiveSource ==
  isRecording => (isCameraOn \/ isScreenShareOn) /\ mediaStreamRef # "null"

\* C9: a download URL is present only while isRecording is false, and it is
\* the URL of the chunk buffer as it stands; a step that starts a recording
\* leaves the buffer empty and no URL; a step that publishes a URL leaves
\* isRecording false and publishes the buffer it leaves.
C9_ArtifactOnlyAfterRecording ==
  /\ [](downloadUrl # <<>> => ~isRecording /\ downloadUrl = <<recordedChunks>>)
  /\ [][/\ ((~isRecording /\ isRecording')
             => recordedChunks' = <<>> /\ downloadUrl' = <<>>)
        /\ ((downloadUrl' # downloadUrl /\ downloadUrl' # <<>>)
             => ~isRecording' /\ downloadUrl' = <<recordedChunks'>>)
       ]_vars

\* C9 witness: a second take has been started after data of the first was
\* delivered, and its own data has been published.
C9_Witness ==
  /\ ~isRecording /\ mediaRecorderRef = 2
  /\ downloadUrl # <<>> /\ 2 \in {recordedChunks[i] : i \in DOMAIN recordedChunks}

\* C10: the collection never holds more than 10 scripts, and a create at 10
\* scripts leaves the collection and the active id as they were.
C10_AtMostTenScripts ==
  /\ [](Len(scripts) <= MAX_SCRIPTS)
  /\ [][(CreateScript /\ Len(scripts) >= MAX_SCRIPTS)
          => scripts' = scripts /\ activeScriptId' = activeScriptId]_vars

\* C10 witness: a create was invoked at 10 scripts.
C10_Witness == storeOp = "create-full" /\ Len(scripts) = MAX_SCRIPTS

\* C11: the collection holds at least one script in every reachable state,
\* whatever array was stored. Violated by the load of a stored empty array,
\* which the initializer maps to an empty collection.
C11_AtLeastOneScript == Len(scripts) >= 1

\* C12: a delete invoked when one script remains leaves one script with the
\* same id, empty content and the title "Untitled Script", and leaves the
\* active id as it was.
C12_DeleteLastClearsInPlace ==
  [][\A id \in StoreIds :
       (DeleteScript(id) /\ Len(scripts) = 1) =>
          /\ Len(scripts') = 1
          /\ scripts'[1].id = scripts[1].id
          /\ scripts'[1].content = <<>>
          /\ scripts'[1].title = UntitledTitle
          /\ activeScriptId' = activeScriptId
    ]_vars

\* C12 witness: the only script, which had content and a title of its own,
\* has been deleted and is still there, cleared and retitled.
C12_Witness ==
  /\ storeOp = "delete" /\ Len(scripts) = 1
  /\ scripts[1].content = <<>> /\ scripts[1].title = UntitledTitle
  /\ scripts[1].lastModified > 0 /\ activeScriptId = scripts[1].id

\* C13: a delete of a listed script when two or more exist removes exactly
\* that script, the others keep their order and fields; the first remaining
\* script becomes active if the deleted one was, else the active id stays.
C13_DeleteRemovesExactlyOne ==
  [][\A id \in StoreIds :
       (DeleteScript(id) /\ Len(scripts) >= 2) =>
          /\ Len(scripts') = Len(scripts) - 1
          /\ \E k \in DOMAIN scripts :
               /\ scripts[k].id = id
               /\ scripts' = SubSeq(scripts, 1, k - 1)
                                \o SubSeq(scripts, k + 1, Len(scripts))
          /\ activeScriptId' = IF id = activeScriptId THEN scripts'[1].id
                                                      ELSE activeScriptId
    ]_vars

\* C13 witness: the active first script of a full collection has been deleted
\* and the script that was second is active.
C13_Witness ==
  /\ storeOp = "delete" /\ Len(scripts) = MAX_SCRIPTS - 1
  /\ scripts[1].id = 2 /\ activeScriptId = 2

\* C14: a rename with a text longer than 50 characters leaves the active
\* script with the first 50 characters of the text as its title, and every
\* title in the store has at most 50 characters in every reachable state.
C14_TitlesAtMostFifty ==
  /\ [](\A i \in DOMAIN scripts : Len(scripts[i].title) <= TitleMaxLength)
  /\ [][\A raw \in TitleInputs :
          (RenameScript(raw) /\ Len(raw) > TitleMaxLength
             /\ activeScriptId \in scriptIds) =>
            \E i \in DOMAIN scripts' :
               /\ scripts'[i].id = activeScriptId
               /\ Len(scripts'[i].title) = TitleMaxLength
               /\ scripts'[i].title = SubSeq(raw, 1, TitleMaxLength)
       ]_vars

\* C14 witness: a rename has left a title of exactly 50 characters.
C14_Witness ==
  /\ storeOp = "rename"
  /\ \E i \in DOMAIN scripts :
       scripts[i].id = activeScriptId /\ Len(scripts[i].title) = TitleMaxLength

\* C15: loading what was persisted reproduces the collection exactly, field
\* for field and in order, also for a script whose title the user emptied.
\* Violated: the load replaces an empty title as it replaces a missing one.
C15_ReloadReproduces == [][Reload => scripts' = scripts]_vars

\* C16: once a microphone request has been denied, no frame sets isAutoPaused
\* and every frame evaluated while isPlaying performs the scroll step, whatever
\* happens afterwards. Violated: a later request that is granted (the other
\* request of the mount, or the camera's) sets micPermission back to true.
C16_DeniedStaysInert ==
  [][(animate /\ isPlaying) =>
       /\ ~isAutoPaused'
       /\ scrollAccumulator' = (scrollAccumulator + scrollSpeed) % 4
       /\ scrollTop' = Min(MaxScroll,
                           scrollTop + (scrollAccumulator + scrollSpeed) \div 4)
    ]_vars

\* C17: scrollSpeed stays within [0, 20]; a speed-up key sets it to
\* min(20, s + 0.5) and a speed-down key to max(0, s - 0.5), so the keys leave
\* it unchanged at the ends; the keys change neither isPlaying, isAutoPaused,
\* the position nor the accumulator. (scrollSpeed is stored doubled.)
C17_SpeedWithinRange ==
  /\ [](scrollSpeed \in 0..MaxSpeed2)
  /\ [][/\ (SpeedUpKey =>
               scrollSpeed' = (IF scrollSpeed = MaxSpeed2 THEN scrollSpeed
                                                          ELSE scrollSpeed + 1))
        /\ (SpeedDownKey =>
               scrollSpeed' = (IF scrollSpeed = 0 THEN scrollSpeed
                                                  ELSE scrollSpeed - 1))
        /\ ((SpeedUpKey \/ SpeedDownKey) =>
               /\ isPlaying' = isPlaying /\ isAutoPaused' = isAutoPaused
               /\ scrollTop' = scrollTop
               /\ scrollAccumulator' = scrollAccumulator)
       ]_vars

\* C17 witness: the speed keys have brought the speed to 20 (the slider ends
\* at 15) while playing, after frames scrolled.
C17_Witness == scrollSpeed = MaxSpeed2 /\ isPlaying /\ scrollTop > 0

\* C18: after the teardown no per-frame callback of the view stays scheduled
\* and no audio graph of the view stays open, also when a microphone request
\* resolves after it. Violated: the volume-analysis callback is never
\* cancelled, only the context held at teardown is closed, and a request that
\* resolves later opens a new context and starts a new callback loop.
C18_TeardownReleases == ~mounted => volumeLoops = 0 /\ openContexts = 0

\* C19: a start of a recording that fails leaves isRecording false and leaves
\* the chunk buffer and a published download URL as they were. Violated: the
\* buffer and the URL are cleared before the recorder is constructed.
C19_FailedStartLeavesState ==
  [][ToggleRecording("failed") =>
       /\ ~isRecording'
       /\ recordedChunks' = recordedChunks
       /\ downloadUrl' = downloadUrl
    ]_vars

\* C20: a storage failure never blocks the app: a value that cannot be read
\* or parsed at startup gives the default one-script collection, and a write
\* that fails is caught inside the persist step. Violated: the exception of a
\* failed write leaves the auto-save effect uncaught.
C20_StorageFailureNeverBlocks ==
  /\ persistError = "none"
  /\ storeOp = "load-default" =>
       Len(scripts) = 1 /\ scripts[1].title = WelcomeTitle
                        /\ scripts[1].content = <<>>

\* C21: at most one audio context is open and at most one microphone-only
\* stream of the monitor is live at any time. Violated: a restart closes the
\* context audioContextRef holds when it begins, never stops the tracks of the
\* microphone stream behind it, and a context created by a request that
\* resolves later is stored over one that is still open.
C21_OneAudioGraph == openContexts <= 1 /\ liveMicStreams <= 1

\* C22: in every state with no acquisition pending, no source on implies that
\* no capture stream is held and the preview is detached, the camera on implies
\* that the held stream is a camera stream, and the screen on that it is a
\* screen stream. Violated: the code after the await of startCamera and
\* startScreenShare stores the stream it obtained whatever the flags are by
\* then, so a source toggled off (or switched) while its request was pending
\* is held and shown once the request resolves.
C22_QuiescentModeMatchesStream ==
  (pendingCamera = 0 /\ pendingScreen = 0 /\ pendingMic = 0 /\ ~devicesPending) =>
     /\ (~isCameraOn /\ ~isScreenShareOn) =>
           mediaStreamRef = "null" /\ videoPreviewSrc = "null"
     /\ isCameraOn => mediaStreamRef = "camera"
     /\ isScreenShareOn => mediaStreamRef = "screen"

\* C23: when the share of the held screen stream is ended natively in screen
\* mode, no source is on afterwards, no stream is held, the preview is
\* detached and a microphone request is pending, and a microphone request
\* that resolves leaves the monitor on a microphone-only stream; the end of a
\* screen stream that is no longer the held one leaves the held stream and
\* the preview as they were. Violated: the onended handler of every
\* screen stream calls stopCurrentStream, which stops whatever stream
\* mediaStreamRef holds at that time.
C23_StopSharingTearsDownOwnStream ==
  [][/\ ((StopSharingHeld /\ isScreenShareOn) =>
            /\ ~isScreenShareOn' /\ ~isCameraOn'
            /\ mediaStreamRef' = "null" /\ videoPreviewSrc' = "null"
            /\ pendingMic' > pendingMic)
     /\ (MicAcquired => analyserSource' = "mic" /\ audioContextRef' = "open")
     /\ ((\E ofRecorder \in BOOLEAN : StopSharingLeaked(ofRecorder)) =>
            /\ mediaStreamRef' = mediaStreamRef
            /\ videoPreviewSrc' = videoPreviewSrc)
    ]_vars

\* C24: a frame evaluated while isPlaying is false, or while the microphone is
\* granted and the silence has lasted longer than the threshold, leaves the
\* position and the accumulator as they were; every frame publishes the
\* progress, which is 100 * scrollTop / maxScroll for the position the frame
\* finds, within [0, 100], and 0 when maxScroll <= 0. (The progress is a
\* fraction <<numerator, denominator>>.)
C24_FramePublishesProgress ==
  [][animate =>
       /\ (~isPlaying
           \/ (micPermission = "true" /\ timeSinceNoise > silenceThresholdSeconds))
            => scrollTop' = scrollTop /\ scrollAccumulator' = scrollAccumulator
       /\ IF maxScroll <= 0
          THEN progress' = <<0, 1>>
          ELSE /\ progress'[2] > 0
               /\ progress'[1] * maxScroll = 100 * scrollTop * progress'[2]
               /\ 0 <= progress'[1] /\ progress'[1] <= 100 * progress'[2]
    ]_vars

\* C24 witness: a frame has published a progress strictly between 0 and 100
\* while playback is auto-paused.
C24_Witness ==
  /\ isPlaying /\ isAutoPaused /\ timeSinceNoise > silenceThresholdSeconds
  /\ scrollTop > 0 /\ scrollTop < maxScroll
  /\ progress = <<100 * scrollTop, maxScroll>>

\* C25: a create invoked with fewer than 10 scripts adds exactly one script,
\* whose id differs from every id in the collection and whose content is
\* empty, at the front, the scripts that were there following unchanged and in
\* their order, and makes it the active script.
C25_CreateAddsAtFront ==
  [][(CreateScript /\ Len(scripts) < MAX_SCRIPTS) =>
       /\ Len(scripts') = Len(scripts) + 1
       /\ scripts'[1].id \notin scriptIds
       /\ scripts'[1].content = <<>>
       /\ SubSeq(scripts', 2, Len(scripts')) = scripts
       /\ activeScriptId' = scripts'[1].id
    ]_vars

\* C25 witness: a create has put a new, active script in front of a saved
\* collection whose first script has content.
C25_Witness ==
  /\ storeOp = "create" /\ Len(scripts) >= 3
  /\ activeScriptId = scripts[1].id /\ scripts[1].content = <<>>
  /\ scripts[2].id = 1 /\ scripts[2].content = <<"a">>

\* C26: an update changes only the content and lastModified of the script
\* whose id is the active id, a rename only its title and lastModified; the
\* number of scripts, their order and ids, every other script and the active
\* id stay as they were, and when no script has the active id the collection
\* stays as it was.
C26_EditTouchesActiveOnly ==
  [][/\ \A content \in ContentInputs :
          UpdateScript(content) =>
            /\ Len(scripts') = Len(scripts)
            /\ activeScriptId' = activeScriptId
            /\ \A i \in DOMAIN scripts :
                 IF scripts[i].id = activeScriptId
                 THEN /\ scripts'[i].id = scripts[i].id
                      /\ scripts'[i].title = scripts[i].title
                      /\ scripts'[i].content = content
                 ELSE scripts'[i] = scripts[i]
            /\ activeScriptId \notin scriptIds => scripts' = scripts
     /\ \A raw \in TitleInputs :
          RenameScript(raw) =>
            /\ Len(scripts') = Len(scripts)
            /\ activeScriptId' = activeScriptId
            /\ \A i \in DOMAIN scripts :
                 IF scripts[i].id = activeScriptId
                 THEN /\ scripts'[i].id = scripts[i].id
                      /\ scripts'[i].content = scripts[i].content
                      /\ scripts'[i].title = titleInput(raw)
                 ELSE scripts'[i] = scripts[i]
            /\ activeScriptId \notin scriptIds => scripts' = scripts
    ]_vars

\* C26 witness: the second script of a saved collection was selected and
\* updated; the first still has the content it was saved with.
C26_Witness ==
  /\ storeOp = "update" /\ Len(scripts) >= 2
  /\ activeScriptId = scripts[2].id
  /\ scripts[2].content = <<"a">> /\ scripts[2].lastModified > 0
  /\ scripts[1].content = <<"a">> /\ scripts[1].lastModified = 0

\* C27: once a create, update, rename or delete has been processed the value
\* under the storage key is the serialization of the collection, so the two
\* agree in every state between events; a select leaves the stored value as
\* it was.
C27_StorageFollowsCollection ==
  /\ [](storage = <<stringify(scripts)>>)
  /\ [][(\E id \in StoreIds : SelectScript(id)) => storage' = storage]_vars

\* C27 witness: the active script's content was emptied by an update and the
\* stored record shows it.
C27_Witness ==
  /\ storeOp = "update" /\ storage # <<>>
  /\ \E i \in DOMAIN scripts :
       /\ scripts[i].id = activeScriptId
       /\ i \in DOMAIN storage[1]
       /\ storage[1][i].content = <<>> /\ storage[1][i].lastModified > 0
  /\ \E j \in DOMAIN scripts : scripts[j].id # activeScriptId

\* C28: the load gives a stored record without the title field the first
\* line of its content, cut to at most 30 characters, as title when the
\* content is not empty and "Untitled Script" when it is; the record's other
\* fields, and every record that has the title field, are loaded as stored.
\* Violated: a record whose title field is the empty text is given a title
\* in the same way (s.title || ...).
C28_LoadFillsMissingTitle ==
  [][(Reload /\ storage # <<>>) =>
       /\ Len(scripts') = Len(storage[1])
       /\ \A i \in DOMAIN storage[1] :
            LET r == storage[1][i]
                t == scripts'[i].title
            IN /\ scripts'[i].id = r.id
               /\ scripts'[i].content = r.content
               /\ scripts'[i].lastModified = r.lastModified
               /\ IF r.hasTitle THEN t = r.title
                  ELSE IF r.content = <<>> THEN t = UntitledTitle
                  ELSE /\ Len(t) <= FirstLineCut /\ Len(t) <= Len(r.content)
                       /\ t = SubSeq(r.content, 1, Len(t))
                       /\ \A k \in DOMAIN t : t[k] # "\n"
                       /\ \/ Len(t) = FirstLineCut
                          \/ Len(t) = Len(r.content)
                          \/ r.content[Len(t) + 1] = "\n"
    ]_vars

\* C29: at most one animate callback is scheduled at any time, exactly one
\* while the view is mounted; a step that changes isPlaying, scrollSpeed, the
\* silence threshold or the microphone permission leaves exactly one, the
\* callback of the previous closure having been cancelled; so a display frame
\* runs the scroll step once.
C29_OneAnimationLoop ==
  /\ [](animationLoops <= 1 /\ (mounted => animationLoops = 1))
  /\ [][(mounted' /\ (\/ isPlaying' # isPlaying
                      \/ scrollSpeed' # scrollSpeed
                      \/ silenceThresholdSeconds' # silenceThresholdSeconds
                      \/ micPermission' # micPermission))
          => animationLoops' = 1 /\ animationFrameRef']_vars

\* C29 witness: playback was started, the speed and the threshold were moved
\* and the microphone was granted, each of which ran the effect again, and
\* frames have scrolled since.
C29_Witness ==
  /\ mounted /\ isPlaying /\ micPermission = "true"
  /\ scrollSpeed # InitialSpeed2 /\ silenceThresholdSeconds # InitialThreshold2
  /\ scrollTop > 0 /\ animationLoops = 1

\* C30: once takes have been stopped, their data is delivered, and unless a
\* recording has been started again by then the buffer, if it holds a chunk,
\* is published as the artifact; a chunk that is not empty is added at the end
\* of the buffer (arrival order); whenever no recording runs and the buffer
\* holds a chunk the published artifact is the whole buffer; and a published
\* artifact is withdrawn only by a start.
C30_ArtifactPublishedAfterStop ==
  /\ (pendingData # {} /\ ~isRecording)
       ~> (\/ isRecording
           \/ /\ pendingData = {}
              /\ recordedChunks # <<>> => downloadUrl = <<recordedChunks>>)
  /\ [](~isRecording /\ recordedChunks # <<>> => downloadUrl = <<recordedChunks>>)
  /\ [][/\ \A k \in 1..MaxTakes :
             DataAvailable(k, 1) => recordedChunks' = Append(recordedChunks, k)
        /\ (downloadUrl # <<>> /\ downloadUrl' = <<>>) =>
             (~isRecording /\ \E outcome \in {"started", "failed"} :
                                 ToggleRecording(outcome))
       ]_vars

\* C30 witness: the first take was stopped, its chunk was delivered and the
\* artifact made of it is published.
C30_Witness ==
  /\ ~isRecording /\ mediaRecorderRef = 1 /\ pendingData = {}
  /\ recordedChunks = <<1>> /\ downloadUrl = <<recordedChunks>>

\* C31: every chunk in the buffer was produced by the recorder of the current
\* take, so a chunk that an earlier recorder delivers late is in neither the
\* buffer nor the published artifact.
C31_BufferHoldsOwnChunksOnly ==
  /\ \A i \in DOMAIN recordedChunks : recordedChunks[i] = mediaRecorderRef
  /\ downloadUrl # <<>> =>
       \A i \in DOMAIN downloadUrl[1] : downloadUrl[1][i] = mediaRecorderRef

\* C32: once the view is torn down no capture handle it acquired is live: no
\* background stream is held or left with live tracks, no microphone stream
\* of the monitor and no device-enumeration stream is live, and no recorder
\* is running.
C32_TeardownStopsCapture ==
  ~mounted =>
    /\ mediaStreamRef = "null" /\ leakedCamera = 0 /\ leakedScreen = 0
    /\ liveMicStreams = 0
    /\ ~devicesStreamLive
    /\ recorderStream = "none" /\ ~isRecording

\* C33: from a loaded collection that is not empty, through create, update,
\* rename, delete and select of a listed script, the active id is the id of a
\* script of the collection and no two scripts have the same id.
C33_ActiveIdListedIdsDistinct ==
  /\ activeScriptId \in scriptIds
  /\ \A i, j \in DOMAIN scripts : scripts[i].id = scripts[j].id => i = j

\* C33 witness: the active script of a collection of three was deleted after
\* the last one had been selected, and the first remaining script is active.
C33_Witness ==
  /\ storeOp = "delete" /\ Len(scripts) = 2
  /\ scripts[1].id = 1 /\ scripts[2].id = 2 /\ activeScriptId = 1

=============================================================================
